---- MODULE Spec2Model ----
(***************************************************************************)
(* The address book of src/task_1.py: Field/Name/Phone/Birthday values,    *)
(* Record objects and the AddressBook mapping, as a state machine whose    *)
(* actions are the public methods.                                         *)
(*                                                                         *)
(* A text is a sequence of Unicode code points.  A date is a record        *)
(* [year, month, day].  Python's None is modelled by the empty sequence    *)
(* (an optional value is a sequence of length 0 or 1) or, for an object    *)
(* reference, by 0.                                                        *)
(***************************************************************************)
EXTENDS Integers, Sequences, FiniteSets, TLC

(***************************************************************************)
(* Bounds of the model.                                                    *)
(***************************************************************************)
MaxPhones == 3      \* phones per Record in SpecRecord
MaxRecords == 2     \* Record objects constructed in SpecBook
MaxCalls == 5       \* calls of a run in Spec

(***************************************************************************)
(* Characters and the regular expressions of re.fullmatch.                 *)
(***************************************************************************)
Dot == 46           \* ord(".")

\* The first code point of some blocks of Unicode decimal digits (category
\* Nd): ASCII, Arabic-Indic, Extended Arabic-Indic, Devanagari, Fullwidth.
DigitZeros == {48, 1632, 1776, 2406, 65296}

\* \d of a str pattern: any Unicode decimal digit, not only [0-9].
IsDigit(c) == \E z \in DigitZeros : c \in z..(z + 9)

\* int() of one decimal digit.
DigitVal(c) == c - (CHOOSE z \in DigitZeros : c \in z..(z + 9))

\* re.fullmatch(r"\d{10}", value)
MatchPhone(value) == Len(value) = 10 /\ \A i \in 1..10 : IsDigit(value[i])

\* re.fullmatch(r"\d{2}\.\d{2}\.\d{4}", value)
MatchDate(value) ==
    /\ Len(value) = 10
    /\ \A i \in {1, 2, 4, 5, 7, 8, 9, 10} : IsDigit(value[i])
    /\ value[3] = Dot
    /\ value[6] = Dot

(***************************************************************************)
(* datetime.date arithmetic.                                               *)
(***************************************************************************)
MinYear == 1
MaxYear == 9999

IsLeap(y) == (y % 4) = 0 /\ ((y % 100) # 0 \/ (y % 400) = 0)

DaysInMonth(y, m) ==
    IF m = 2 THEN (IF IsLeap(y) THEN 29 ELSE 28)
    ELSE IF m \in {4, 6, 9, 11} THEN 30 ELSE 31

DaysBeforeYear(y) ==
    ((y - 1) * 365) + ((y - 1) \div 4) - ((y - 1) \div 100) + ((y - 1) \div 400)

RECURSIVE DaysBeforeMonth(_, _)
DaysBeforeMonth(y, m) ==
    IF m = 1 THEN 0 ELSE DaysBeforeMonth(y, m - 1) + DaysInMonth(y, m - 1)

Date(y, m, d) == [year |-> y, month |-> m, day |-> d]

\* date(y, m, d) raises ValueError unless the fields name a calendar day.
ValidDate(y, m, d) ==
    /\ y \in MinYear..MaxYear
    /\ m \in 1..12
    /\ d \in 1..DaysInMonth(y, m)

ToOrdinal(dt) == DaysBeforeYear(dt.year) + DaysBeforeMonth(dt.year, dt.month) + dt.day

\* date.fromordinal (CPython's _ord2ymd).
FromOrdinal(ord) ==
    LET n0   == ord - 1
        n400 == n0 \div 146097
        r400 == n0 % 146097
        n100 == r400 \div 36524
        r100 == r400 % 36524
        n4   == r100 \div 1461
        r4   == r100 % 1461
        n1   == r4 \div 365
        n    == r4 % 365
        year == (n400 * 400) + 1 + (n100 * 100) + (n4 * 4) + n1
    IN  IF n1 = 4 \/ n100 = 4 THEN Date(year - 1, 12, 31)
        ELSE LET month == CHOOSE m \in 1..12 :
                              /\ DaysBeforeMonth(year, m) <= n
                              /\ n < DaysBeforeMonth(year, m) + DaysInMonth(year, m)
             IN  Date(year, month, n - DaysBeforeMonth(year, month) + 1)

\* date.weekday(): Monday is 0, Sunday is 6.
Weekday(dt) == (ToOrdinal(dt) + 6) % 7

\* d1 < d2 on dates.
DateLess(d1, d2) == ToOrdinal(d1) < ToOrdinal(d2)

\* (d1 - d2).days
DaysBetween(d1, d2) == ToOrdinal(d1) - ToOrdinal(d2)

\* d + timedelta(days = n)
AddDays(dt, n) == FromOrdinal(ToOrdinal(dt) + n)

\* date.replace(year = y): the optional result is <<>> where Python raises
\* ValueError (29 February projected onto a year that is not a leap year).
ReplaceYear(dt, y) ==
    IF ValidDate(y, dt.month, dt.day) THEN <<Date(y, dt.month, dt.day)>> ELSE <<>>

(***************************************************************************)
(* Parsing and formatting of "%d.%m.%Y".                                   *)
(***************************************************************************)
TwoDigits(n) == <<48 + (n \div 10), 48 + (n % 10)>>
FourDigits(n) ==
    <<48 + (n \div 1000), 48 + ((n \div 100) % 10), 48 + ((n \div 10) % 10), 48 + (n % 10)>>

\* date.strftime("%d.%m.%Y"), for the years 1000..9999.
StrFTime(dt) ==
    TwoDigits(dt.day) \o <<Dot>> \o TwoDigits(dt.month) \o <<Dot>> \o FourDigits(dt.year)

\* datetime.strptime(text, "%d.%m.%Y").date() of a text MatchDate accepts;
\* <<>> where it raises ValueError.  The format's own pattern is
\* (3[0-1]|[1-2]\d|0[1-9]) . (1[0-2]|0[1-9]) . \d\d\d\d, then date(y, m, d).
StrPTime(text) ==
    LET a == text[1]
        b == text[2]
        c == text[4]
        e == text[5]
        dayOk == \/ a = 51 /\ b \in 48..49
                 \/ a \in 49..50 /\ IsDigit(b)
                 \/ a = 48 /\ b \in 49..57
        monOk == \/ c = 49 /\ e \in 48..50
                 \/ c = 48 /\ e \in 49..57
        d == (10 * DigitVal(a)) + DigitVal(b)
        m == (10 * DigitVal(c)) + DigitVal(e)
        y == (1000 * DigitVal(text[7])) + (100 * DigitVal(text[8]))
             + (10 * DigitVal(text[9])) + DigitVal(text[10])
    IN  IF dayOk /\ monOk /\ ValidDate(y, m, d) THEN <<Date(y, m, d)>> ELSE <<>>

\* Birthday.convert_str_to_date
convert_str_to_date(text) == StrPTime(text)

\* Phone.__init__: TRUE when the constructor returns, FALSE when it raises.
PhoneInit(value) == MatchPhone(value)

\* Birthday.__init__: the stored value, or <<>> when the constructor raises.
BirthdayInit(value) ==
    IF ~MatchDate(value) THEN <<>> ELSE convert_str_to_date(value)

(***************************************************************************)
(* The state.                                                              *)
(***************************************************************************)
VARIABLES
    records,    \* the Record objects constructed so far; the index is the object
    book,       \* AddressBook.data: the entries [key, rec] in insertion order
    op,         \* the method called last
    inp,        \* its arguments, and the clock it read
    raised,     \* "None", or the exception that call raised
    ret,        \* what it returned
    calls       \* the number of calls made (counted in Spec only)

vars == <<records, book, op, inp, raised, ret, calls>>

NoInp == [rec |-> 0, name |-> "", text |-> <<>>, new_number |-> <<>>, today |-> <<>>]
NoRet == [record |-> 0, phone |-> 0, upcoming |-> <<>>]

\* A call that returns None.
Returns(o, i) ==
    /\ op' = o
    /\ inp' = i
    /\ raised' = "None"
    /\ ret' = NoRet

\* A call that returns the value v.
ReturnsValue(o, i, v) ==
    /\ op' = o
    /\ inp' = i
    /\ raised' = "None"
    /\ ret' = v

\* A call that raises ValueError.
Raises(o, i) ==
    /\ op' = o
    /\ inp' = i
    /\ raised' = "ValueError"
    /\ ret' = NoRet

(***************************************************************************)
(* Record.                                                                 *)
(***************************************************************************)
RecIds == 1..Len(records)

\* Record.__init__
RecordInit(name) ==
    /\ records' = Append(records, [name |-> name, phones |-> <<>>, birthday |-> <<>>])
    /\ ReturnsValue("Record", [NoInp EXCEPT !.name = name],
                    [NoRet EXCEPT !.record = Len(records) + 1])
    /\ UNCHANGED book

\* Record.add_birthday
add_birthday(r, birthday) ==
    LET i == [NoInp EXCEPT !.rec = r, !.text = birthday]
        b == BirthdayInit(birthday)
    IN  /\ IF b = <<>>
           THEN Raises("add_birthday", i) /\ UNCHANGED records
           ELSE /\ records' = [records EXCEPT ![r].birthday = b]
                /\ Returns("add_birthday", i)
        /\ UNCHANGED book

\* Record.add_phone
add_phone(r, phone_number) ==
    LET i == [NoInp EXCEPT !.rec = r, !.text = phone_number]
    IN  /\ IF ~PhoneInit(phone_number)
           THEN Raises("add_phone", i) /\ UNCHANGED records
           ELSE /\ records' = [records EXCEPT ![r].phones = Append(@, phone_number)]
                /\ Returns("add_phone", i)
        /\ UNCHANGED book

\* (A find_phone that keeps the last match instead of returning the first.)
FindLast(phones, phone_number) ==
    IF \E i \in 1..Len(phones) : phones[i] = phone_number
    THEN CHOOSE i \in 1..Len(phones) :
             /\ phones[i] = phone_number
             /\ \A j \in (i + 1)..Len(phones) : phones[j] # phone_number
    ELSE 0

\* The loop of Record.find_phone over a list of phone values: the position
\* of the first phone whose value is phone_number, 0 (None) when there is none.
FindPhone(phones, phone_number) ==
    IF \E i \in 1..Len(phones) : phones[i] = phone_number
    THEN CHOOSE i \in 1..Len(phones) :
             /\ phones[i] = phone_number
             /\ \A j \in 1..(i - 1) : phones[j] # phone_number
    ELSE 0

\* (A removal that drops every phone of the value at position i.)
RemoveAll(s, i) == SelectSeq(s, LAMBDA x : x # s[i])

\* list.remove of the object at position i.
RemoveAt(s, i) == [j \in 1..(Len(s) - 1) |-> IF j < i THEN s[j] ELSE s[j + 1]]

\* Record.remove_phone
remove_phone(r, phone_number) ==
    LET i == [NoInp EXCEPT !.rec = r, !.text = phone_number]
        phone_to_remove == FindPhone(records[r].phones, phone_number)
    IN  /\ IF phone_to_remove # 0
           THEN records' = [records EXCEPT ![r].phones = RemoveAt(@, phone_to_remove)]
           ELSE UNCHANGED records
        /\ Returns("remove_phone", i)
        /\ UNCHANGED book

\* (An edit_phone that assigns the new value before it validates it.)
edit_phone_AssignFirst(r, old_number, new_number) ==
    LET i == [NoInp EXCEPT !.rec = r, !.text = old_number, !.new_number = new_number]
        phone_to_edit == FindPhone(records[r].phones, old_number)
    IN  /\ IF phone_to_edit # 0
           THEN /\ records' = [records EXCEPT ![r].phones[phone_to_edit] = new_number]
                /\ IF ~MatchPhone(new_number)
                   THEN Raises("edit_phone", i)
                   ELSE Returns("edit_phone", i)
           ELSE Returns("edit_phone", i) /\ UNCHANGED records
        /\ UNCHANGED book

\* (An edit_phone that validates the new value before it looks for the old.)
edit_phone_ValidateFirst(r, old_number, new_number) ==
    LET i == [NoInp EXCEPT !.rec = r, !.text = old_number, !.new_number = new_number]
        phone_to_edit == FindPhone(records[r].phones, old_number)
    IN  /\ IF ~MatchPhone(new_number)
           THEN Raises("edit_phone", i) /\ UNCHANGED records
           ELSE IF phone_to_edit # 0
                THEN /\ records' = [records EXCEPT ![r].phones[phone_to_edit] = new_number]
                     /\ Returns("edit_phone", i)
                ELSE Returns("edit_phone", i) /\ UNCHANGED records
        /\ UNCHANGED book

\* Record.edit_phone
edit_phone(r, old_number, new_number) ==
    LET i == [NoInp EXCEPT !.rec = r, !.text = old_number, !.new_number = new_number]
        phone_to_edit == FindPhone(records[r].phones, old_number)
    IN  /\ IF phone_to_edit # 0
           THEN IF ~MatchPhone(new_number)
                THEN Raises("edit_phone", i) /\ UNCHANGED records
                ELSE /\ records' = [records EXCEPT ![r].phones[phone_to_edit] = new_number]
                     /\ Returns("edit_phone", i)
           ELSE Returns("edit_phone", i) /\ UNCHANGED records
        /\ UNCHANGED book

\* Record.find_phone: the Phone object is named by its position in the list.
find_phone(r, phone_number) ==
    /\ ReturnsValue("find_phone", [NoInp EXCEPT !.rec = r, !.text = phone_number],
                    [NoRet EXCEPT !.phone = FindPhone(records[r].phones, phone_number)])
    /\ UNCHANGED <<records, book>>

(***************************************************************************)
(* AddressBook.                                                            *)
(***************************************************************************)
\* The position of the entry of key name in the mapping, 0 when it has none.
KeyIndex(name) ==
    IF \E i \in 1..Len(book) : book[i].key = name
    THEN CHOOSE i \in 1..Len(book) : book[i].key = name
    ELSE 0

\* (A mapping that appends an entry even when the key is present.)
SetItemAppend(key, r) == Append(book, [key |-> key, rec |-> r])

\* self.data[key] = r: a new key is appended, an existing key keeps its place.
SetItem(key, r) ==
    IF KeyIndex(key) # 0
    THEN [book EXCEPT ![KeyIndex(key)].rec = r]
    ELSE Append(book, [key |-> key, rec |-> r])

\* AddressBook.add_record
add_record(r) ==
    /\ book' = SetItem(records[r].name, r)
    /\ Returns("add_record", [NoInp EXCEPT !.rec = r])
    /\ UNCHANGED records

\* self.data.get(name)
Get(name) == IF KeyIndex(name) = 0 THEN 0 ELSE book[KeyIndex(name)].rec

\* (A find that takes the entry out of the mapping: self.data.pop(name, None).)
find_Pop(name) ==
    /\ ReturnsValue("find", [NoInp EXCEPT !.name = name],
                    [NoRet EXCEPT !.record = Get(name)])
    /\ IF KeyIndex(name) # 0
       THEN book' = [j \in 1..(Len(book) - 1) |->
                        IF j < KeyIndex(name) THEN book[j] ELSE book[j + 1]]
       ELSE UNCHANGED book
    /\ UNCHANGED records

\* AddressBook.find
find(name) ==
    /\ ReturnsValue("find", [NoInp EXCEPT !.name = name],
                    [NoRet EXCEPT !.record = Get(name)])
    /\ UNCHANGED <<records, book>>

\* AddressBook.delete
delete(name) ==
    /\ IF KeyIndex(name) # 0
       THEN book' = RemoveAt(book, KeyIndex(name))
       ELSE UNCHANGED book
    /\ Returns("delete", [NoInp EXCEPT !.name = name])
    /\ UNCHANGED records

\* Lines 249-253: the birthday set to the current year and, when that day
\* has passed, to the next year; <<>> when date.replace raises ValueError.
Project(birthday_date, today) ==
    LET birthday_this_year == ReplaceYear(birthday_date, today.year)
    IN  IF birthday_this_year = <<>> THEN <<>>
        ELSE IF DateLess(birthday_this_year[1], today)
             THEN ReplaceYear(birthday_this_year[1], today.year + 1)
             ELSE birthday_this_year

\* Line 256: the birthday is within the next 7 days.
WithinWeek(birthday_this_year, today) ==
    /\ 0 <= DaysBetween(birthday_this_year, today)
    /\ DaysBetween(birthday_this_year, today) <= 7

\* (An adjustment that moves a Saturday one day and leaves a Sunday.)
SkipSaturday(dt) == IF Weekday(dt) = 5 THEN AddDays(dt, 1) ELSE dt

\* Lines 258-259: the day moved forward while it is a Saturday or a Sunday.
RECURSIVE SkipWeekend(_)
SkipWeekend(dt) ==
    IF Weekday(dt) \in {5, 6} THEN SkipWeekend(AddDays(dt, 1)) ELSE dt

\* The loop of get_upcoming_birthdays over the entries items, in order, with
\* the list built so far: [raised, list].
RECURSIVE UpcomingLoop(_, _, _)
UpcomingLoop(items, today, users_upcoming_birthday) ==
    IF items = <<>>
    THEN [raised |-> FALSE, list |-> users_upcoming_birthday]
    ELSE LET user_name == Head(items).key
             user == records[Head(items).rec]
         IN  IF user.birthday = <<>>
             THEN UpcomingLoop(Tail(items), today, users_upcoming_birthday)
             ELSE LET birthday_this_year == Project(user.birthday[1], today)
                  IN  IF birthday_this_year = <<>>
                      THEN [raised |-> TRUE, list |-> <<>>]
                      ELSE IF WithinWeek(birthday_this_year[1], today)
                           THEN UpcomingLoop(Tail(items), today,
                                    Append(users_upcoming_birthday,
                                        [name |-> user_name,
                                         congratulation_date |->
                                             StrFTime(SkipWeekend(birthday_this_year[1]))]))
                           ELSE UpcomingLoop(Tail(items), today, users_upcoming_birthday)

\* AddressBook.get_upcoming_birthdays, the clock reading today.
get_upcoming_birthdays(today) ==
    LET i == [NoInp EXCEPT !.today = <<today>>]
        res == UpcomingLoop(book, today, <<>>)
    IN  /\ IF res.raised
           THEN Raises("get_upcoming_birthdays", i)
           ELSE ReturnsValue("get_upcoming_birthdays", i,
                             [NoRet EXCEPT !.upcoming = res.list])
        /\ UNCHANGED <<records, book>>

(***************************************************************************)
(* The inputs of the calls.                                                *)
(***************************************************************************)
Names == {"John", "Vova"}

\* "1234567890"
Phone1234567890 == <<49, 50, 51, 52, 53, 54, 55, 56, 57, 48>>
\* "5555555555"
Phone5555555555 == <<53, 53, 53, 53, 53, 53, 53, 53, 53, 53>>
\* "1112223333"
Phone1112223333 == <<49, 49, 49, 50, 50, 50, 51, 51, 51, 51>>
\* ten Arabic-Indic digits, U+0661 .. U+0669, U+0660
PhoneArabicIndic == <<1633, 1634, 1635, 1636, 1637, 1638, 1639, 1640, 1641, 1632>>
\* "123456789"
PhoneNineDigits == <<49, 50, 51, 52, 53, 54, 55, 56, 57>>
\* "123-456-78"
PhoneSeparators == <<49, 50, 51, 45, 52, 53, 54, 45, 55, 56>>
\* "02.08.1989"
Birthday02081989 == <<48, 50, 46, 48, 56, 46, 49, 57, 56, 57>>
\* "03.08.1990"
Birthday03081990 == <<48, 51, 46, 48, 56, 46, 49, 57, 57, 48>>
\* "29.02.2000", a leap day
Birthday29022000 == <<50, 57, 46, 48, 50, 46, 50, 48, 48, 48>>
\* "01.01.1990"
Birthday01011990 == <<48, 49, 46, 48, 49, 46, 49, 57, 57, 48>>
\* "31.02.2000", no calendar day
Birthday31022000 == <<51, 49, 46, 48, 50, 46, 50, 48, 48, 48>>
\* "2.8.1989", not DD.MM.YYYY
Birthday281989 == <<50, 46, 56, 46, 49, 57, 56, 57>>

PhoneTexts ==
    {Phone1234567890, Phone5555555555, Phone1112223333, PhoneArabicIndic,
     PhoneNineDigits, PhoneSeparators}

BirthdayTexts ==
    {Birthday02081989, Birthday03081990, Birthday29022000, Birthday01011990,
     Birthday31022000, Birthday281989}

\* Readings of the clock: Thursday 1 August 2024, Saturday 3 August 2024,
\* Friday 26 July 2024, Saturday 28 December 2024, Sunday 25 February 2024,
\* Friday 1 March 2024 and Monday 27 February 2023.
Todays ==
    {Date(2024, 8, 1), Date(2024, 8, 3), Date(2024, 7, 26), Date(2024, 12, 28),
     Date(2024, 2, 25), Date(2024, 3, 1), Date(2023, 2, 27)}

(***************************************************************************)
(* The calls.                                                              *)
(***************************************************************************)
CallRecord == \E name \in Names : RecordInit(name)
CallAddBirthday == \E r \in RecIds, t \in BirthdayTexts : add_birthday(r, t)
CallAddPhone == \E r \in RecIds, t \in PhoneTexts : add_phone(r, t)
CallRemovePhone == \E r \in RecIds, t \in PhoneTexts : remove_phone(r, t)
CallEditPhone == \E r \in RecIds, old \in PhoneTexts, new \in PhoneTexts : edit_phone(r, old, new)
CallFindPhone == \E r \in RecIds, t \in PhoneTexts : find_phone(r, t)
CallAddRecord == \E r \in RecIds : add_record(r)
CallFind == \E name \in Names : find(name)
CallDelete == \E name \in Names : delete(name)
CallUpcoming == \E today \in Todays : get_upcoming_birthdays(today)

\* Nothing constructed yet.
Init ==
    /\ records = <<>>
    /\ book = <<>>
    /\ op = "start"
    /\ inp = NoInp
    /\ raised = "None"
    /\ ret = NoRet
    /\ calls = 0

\* A call of a run that counts its calls, and of a run that does not.
Counted == calls < MaxCalls /\ calls' = calls + 1
Uncounted == UNCHANGED calls

\* Any program of at most MaxCalls calls.
Next ==
    \/ Counted /\ CallRecord
    \/ Counted /\ CallAddBirthday
    \/ Counted /\ CallAddPhone
    \/ Counted /\ CallRemovePhone
    \/ Counted /\ CallEditPhone
    \/ Counted /\ CallFindPhone
    \/ Counted /\ CallAddRecord
    \/ Counted /\ CallFind
    \/ Counted /\ CallDelete
    \/ Counted /\ CallUpcoming

Spec == Init /\ [][Next]_vars

\* One Record, john = Record("John"), and any calls of its methods that
\* keep at most MaxPhones phones in it.
InitRecord ==
    /\ records = <<[name |-> "John", phones |-> <<>>, birthday |-> <<>>]>>
    /\ book = <<>>
    /\ op = "Record"
    /\ inp = [NoInp EXCEPT !.name = "John"]
    /\ raised = "None"
    /\ ret = [NoRet EXCEPT !.record = 1]
    /\ calls = 0

NextRecord ==
    \/ Uncounted /\ CallAddBirthday
    \/ Uncounted /\ Len(records[1].phones) < MaxPhones /\ CallAddPhone
    \/ Uncounted /\ CallRemovePhone
    \/ Uncounted /\ CallEditPhone
    \/ Uncounted /\ CallFindPhone

SpecRecord == InitRecord /\ [][NextRecord]_vars

\* Any calls that construct at most MaxRecords Records, set their birthdays
\* and use the address book.
NextBook ==
    \/ Uncounted /\ Len(records) < MaxRecords /\ CallRecord
    \/ Uncounted /\ CallAddBirthday
    \/ Uncounted /\ CallAddRecord
    \/ Uncounted /\ CallFind
    \/ Uncounted /\ CallDelete
    \/ Uncounted /\ CallUpcoming

SpecBook == Init /\ [][NextBook]_vars

(***************************************************************************)
(* The vocabulary of the properties, stated apart from the methods.        *)
(***************************************************************************)
\* A text of exactly 10 ASCII decimal digits.
TenAsciiDigits(text) == Len(text) = 10 /\ \A i \in 1..10 : text[i] \in 48..57

\* The first position of x in the sequence s, 0 when x is not in it.
FirstPosition(s, x) ==
    LET at == {i \in 1..Len(s) : s[i] = x}
    IN  IF at = {} THEN 0 ELSE CHOOSE i \in at : \A j \in at : i <= j

\* The sequence s without its element at position p.
Without(s, p) == SubSeq(s, 1, p - 1) \o SubSeq(s, p + 1, Len(s))

\* The Record the mapping b holds for the name n, 0 when it holds none.
Lookup(b, n) ==
    LET at == {i \in 1..Len(b) : b[i].key = n}
    IN  IF at = {} THEN 0 ELSE b[CHOOSE i \in at : TRUE].rec

\* d1 is an earlier day than d2.
Earlier(d1, d2) ==
    \/ d1.year < d2.year
    \/ d1.year = d2.year /\ d1.month < d2.month
    \/ d1.year = d2.year /\ d1.month = d2.month /\ d1.day < d2.day

\* The next occurrence of the birthday b seen from today, as a sequence of
\* length 1; the empty sequence when the year it falls in has no such day.
NextOccurrence(b, today) ==
    IF /\ ValidDate(today.year, b.month, b.day)
       /\ ~Earlier(Date(today.year, b.month, b.day), today)
    THEN <<Date(today.year, b.month, b.day)>>
    ELSE IF /\ ValidDate(today.year, b.month, b.day)
            /\ ValidDate(today.year + 1, b.month, b.day)
         THEN <<Date(today.year + 1, b.month, b.day)>>
         ELSE <<>>

\* The entry e of the mapping is due: its Record has a birthday whose next
\* occurrence is 0 to 7 days after today.
Due(e, today) ==
    LET b == records[e.rec].birthday
    IN  /\ b # <<>>
        /\ NextOccurrence(b[1], today) # <<>>
        /\ DaysBetween(NextOccurrence(b[1], today)[1], today) \in 0..7

\* The names of the due entries, in the order of the mapping.
DueNames(today) ==
    LET due == SelectSeq(book, LAMBDA e : Due(e, today))
    IN  [k \in 1..Len(due) |-> due[k].key]

\* The names of the entries of a result of get_upcoming_birthdays.
EntryNames(upcoming) == [k \in 1..Len(upcoming) |-> upcoming[k].name]

(***************************************************************************)
(* C1.  Every call of get_upcoming_birthdays returns, and the only calls   *)
(* that raise are add_phone, add_birthday and edit_phone.  The code        *)
(* raises ValueError from date.replace for a birthday on 29 February       *)
(* when the year it is projected onto is not a leap year.                  *)
(***************************************************************************)
C1_OnlyInvalidFormatRaises ==
    raised # "None" => op \in {"add_phone", "add_birthday", "edit_phone"}

(***************************************************************************)
(* C2.  get_upcoming_birthdays returns exactly one entry for each Record   *)
(* of the mapping whose birthday's next occurrence is 0 to 7 days after    *)
(* today, none for any other Record, in the order of the mapping.  It      *)
(* fails where C1 fails: the call raises and returns no entry at all.      *)
(***************************************************************************)
C2_UpcomingAreTheDueRecords ==
    op = "get_upcoming_birthdays" =>
        /\ raised = "None"
        /\ EntryNames(ret.upcoming) = DueNames(inp.today[1])

\* What is left of C2 on the calls that return: the entries are the due
\* Records, in the order of the mapping.
UpcomingAreTheDueRecordsWhenReturned ==
    (op = "get_upcoming_birthdays" /\ raised = "None") =>
        EntryNames(ret.upcoming) = DueNames(inp.today[1])

(***************************************************************************)
(* C3.  The congratulation_date of every returned entry is no Saturday     *)
(* and no Sunday: it is the next occurrence of the birthday when that is   *)
(* a Monday to Friday, and the first Monday after it otherwise.            *)
(***************************************************************************)
C3_CongratulationOnWeekday ==
    (op = "get_upcoming_birthdays" /\ raised = "None") =>
        \A k \in 1..Len(ret.upcoming) :
            LET e    == ret.upcoming[k]
                b    == records[Lookup(book, e.name)].birthday[1]
                next == NextOccurrence(b, inp.today[1])[1]
                d    == StrPTime(e.congratulation_date)[1]
            IN  /\ MatchDate(e.congratulation_date)
                /\ Weekday(d) \notin {5, 6}
                /\ Weekday(next) \in 0..4 => d = next
                /\ Weekday(next) \in {5, 6} =>
                       /\ Weekday(d) = 0
                       /\ DaysBetween(d, next) \in 1..2

\* A Saturday birthday, 3 August, congratulated on Monday 5 August 2024.
C3_Witness ==
    /\ op = "get_upcoming_birthdays"
    /\ raised = "None"
    /\ \E k \in 1..Len(ret.upcoming) :
           /\ ret.upcoming[k].congratulation_date = StrFTime(Date(2024, 8, 5))
           /\ records[Lookup(book, ret.upcoming[k].name)].birthday[1].day = 3

(***************************************************************************)
(* C4.  Every phone stored in a Record is a text of exactly 10 ASCII       *)
(* decimal digits.  The code's \d accepts every Unicode decimal digit,     *)
(* so add_phone and edit_phone store ten Arabic-Indic digits.              *)
(***************************************************************************)
C4_StoredPhonesAreTenAsciiDigits ==
    \A r \in RecIds : \A i \in 1..Len(records[r].phones) :
        TenAsciiDigits(records[r].phones[i])

(***************************************************************************)
(* C5.  A call of add_phone, add_birthday or edit_phone that raises        *)
(* leaves the Record as it was: its phones, in order, and its birthday.    *)
(***************************************************************************)
C5_FailedCallChangesNothing ==
    [][(raised' = "ValueError" /\ op' \in {"add_phone", "add_birthday", "edit_phone"})
          => records' = records]_vars

\* A failed call on a Record that holds phones and a birthday.
C5_Witness ==
    /\ raised = "ValueError"
    /\ op = "edit_phone"
    /\ Len(records[1].phones) >= 2
    /\ records[1].birthday # <<>>

C7_AbsentTargetIsNoError ==
    [][/\ (op' = "edit_phone" /\ FirstPosition(records[inp'.rec].phones, inp'.text) = 0)
           => (raised' = "None" /\ records' = records /\ book' = book)
       /\ (op' = "remove_phone" /\ FirstPosition(records[inp'.rec].phones, inp'.text) = 0)
           => (raised' = "None" /\ records' = records /\ book' = book)
       /\ (op' = "delete" /\ Lookup(book, inp'.name) = 0)
           => (raised' = "None" /\ records' = records /\ book' = book)
       /\ (op' = "find" /\ Lookup(book, inp'.name) = 0)
           => (raised' = "None" /\ ret'.record = 0)]_vars

\* edit_phone of an absent number to a text that is no phone returned.
C7_Witness ==
    /\ op = "edit_phone"
    /\ raised = "None"
    /\ ~MatchPhone(inp.new_number)
    /\ records[inp.rec].phones # <<>>
    /\ FirstPosition(records[inp.rec].phones, inp.text) = 0

(***************************************************************************)
(* C8.  The mapping holds at most one entry per name, each under the name  *)
(* of its Record.  add_record(r) makes the name of r map to r and delete   *)
(* makes its name map to nothing, both leaving every other name as it      *)
(* was; delete of an absent name, and every other call, leave the mapping  *)
(* as it was; find returns what the name maps to.  So find(n) returns the  *)
(* Record added last under n unless a delete(n) followed.                  *)
(***************************************************************************)
C8_LastWriteWins ==
    [][/\ \A i, j \in 1..Len(book') : book'[i].key = book'[j].key => i = j
       /\ \A i \in 1..Len(book') : records'[book'[i].rec].name = book'[i].key
       /\ op' = "add_record" =>
              /\ Lookup(book', records[inp'.rec].name) = inp'.rec
              /\ \A n \in Names \ {records[inp'.rec].name} : Lookup(book', n) = Lookup(book, n)
       /\ op' = "delete" =>
              /\ Lookup(book', inp'.name) = 0
              /\ book' = SelectSeq(book, LAMBDA e : e.key # inp'.name)
              /\ Lookup(book, inp'.name) = 0 => book' = book
       /\ op' = "find" => ret'.record = Lookup(book, inp'.name)
       /\ op' \notin {"add_record", "delete"} => book' = book]_vars

\* Two Records named John exist, the second was added, and the mapping
\* holds the second under the one key John.
C8_Witness ==
    /\ op = "add_record"
    /\ inp.rec = 2
    /\ Len(records) = 2
    /\ records[1].name = "John"
    /\ records[2].name = "John"
    /\ book = <<[key |-> "John", rec |-> 2]>>

(***************************************************************************)
(* C9.  remove_phone(text) removes the first phone equal to text and       *)
(* keeps every other phone in its order; when text is absent the phones    *)
(* are unchanged.  The birthday is unchanged in both cases.                *)
(***************************************************************************)
C9_RemoveDropsFirstOnly ==
    [][op' = "remove_phone" =>
          LET r      == inp'.rec
              before == records[r].phones
              p      == FirstPosition(before, inp'.text)
          IN  /\ raised' = "None"
              /\ p # 0 => records'[r].phones = Without(before, p)
              /\ p = 0 => records'[r].phones = before
              /\ records'[r].birthday = records[r].birthday]_vars

\* A phone was removed and a later phone of the same value is still there,
\* in a Record that has a birthday.
C9_Witness ==
    /\ op = "remove_phone"
    /\ raised = "None"
    /\ inp.text = Phone1234567890
    /\ records[1].phones = <<Phone5555555555, Phone1234567890>>
    /\ records[1].birthday # <<>>

(***************************************************************************)
(* C10.  find, find_phone and get_upcoming_birthdays change nothing: the   *)
(* mapping, its order, and every Record's name, phones and birthday are    *)
(* after the call what they were before it.                                *)
(***************************************************************************)
C10_QueriesChangeNothing ==
    [][op' \in {"find", "find_phone", "get_upcoming_birthdays"}
          => (records' = records /\ book' = book)]_vars

\* get_upcoming_birthdays returned an entry.
C10_Witness ==
    /\ op = "get_upcoming_birthdays"
    /\ raised = "None"
    /\ ret.upcoming # <<>>
    /\ book # <<>>

====
